---- MODULE Spec2Model ----
(***************************************************************************)
(* Model of the task-group scheduler of hytale_server_manager              *)
(* (TaskGroupService): the registry of cron timers, the CRUD handlers      *)
(* that drive it, and the executeGroup orchestration loop.                 *)
(*                                                                         *)
(* Every handler is cut at its await points: one action per stretch of     *)
(* synchronous code, with the store call that ends the stretch.            *)
(***************************************************************************)
EXTENDS Integers, Sequences, FiniteSets, Bags, TLC

(***************************************************************************)
(* Bounds                                                                  *)
(***************************************************************************)
MaxMembers == 4
MaxRuns == 2
MaxExecs == 2
MaxOps == 2
MaxGroups == 1
MaxTasks == 2

GroupIds == {"g1", "g2"}
TaskIds == 1..MaxMembers

\* Cron expressions, as their whitespace-separated fields.
ExprNightly == <<"0", "3", "*", "*", "*">>
ExprFive == <<"*/5", "*", "*", "*", "*">>
ExprShort == <<"0", "3", "*", "*">>
ExprEmpty == <<>>
ValidExprs == {ExprNightly, ExprFive}
Exprs == ValidExprs \cup {ExprShort, ExprEmpty}

Null == "null"
NoTimer == [gid |-> Null, expr |-> <<>>]

VARIABLES
    groups,           \* taskGroup table: group id -> row
    members,          \* taskGroupMember table: group id -> rows in storage order
    taskEnabled,      \* scheduledTask table: task id -> enabled flag
    executions,       \* taskGroupExecution table, in creation order
    scheduledGroups,  \* TaskGroupService.scheduledGroups: group id -> its ScheduledTask, or NoTimer
    timers,           \* bag of the node-cron ScheduledTask objects that are armed (not stopped)
    ops,              \* bag of CRUD handlers suspended at an await
    runs              \* bag of executeGroup activations

vars == <<groups, members, taskEnabled, executions, scheduledGroups, timers, ops, runs>>

storeVars == <<groups, members, taskEnabled, executions>>
registryVars == <<scheduledGroups, timers>>

(***************************************************************************)
(* Store rows                                                              *)
(***************************************************************************)
NoRow ==
    [state |-> "none", enabled |-> FALSE, cronExpression |-> <<>>,
     failureMode |-> "stop", delayBetweenTasks |-> 0,
     lastStatus |-> Null, lastError |-> 0]

DeletedRow == [NoRow EXCEPT !.state = "deleted"]

GroupRow(enabled, expr, mode, delay) ==
    [state |-> "present", enabled |-> enabled, cronExpression |-> expr,
     failureMode |-> mode, delayBetweenTasks |-> delay,
     lastStatus |-> Null, lastError |-> 0]

Replace(bag, old, new) == (bag (-) SetToBag({old})) (+) SetToBag({new})

(***************************************************************************)
(* Helpers of executeGroup                                                 *)
(***************************************************************************)
\* The comparator of line 122, (a, b) => a.sortOrder - b.sortOrder, under the
\* stable sort of the runtime: the place of the k-th element in the result.
Rank(ms, k) ==
    Cardinality({j \in 1..Len(ms) :
        \/ ms[j].sortOrder < ms[k].sortOrder
        \/ (ms[j].sortOrder = ms[k].sortOrder /\ j < k)}) + 1

\* [...taskMemberships].sort((a, b) => a.sortOrder - b.sortOrder): stable, ascending.
SortBySortOrder(ms) ==
    [p \in 1..Len(ms) |-> ms[CHOOSE k \in 1..Len(ms) : Rank(ms, k) = p]]

\* getGroupWithTasks: the group row joined with its memberships (ordered by
\* sortOrder) and each membership's task; NoGroup (null) when the row does not exist.
NoGroup == [found |-> FALSE, failureMode |-> "stop", delayBetweenTasks |-> 0,
            taskMemberships |-> <<>>]

getGroupWithTasks(g) ==
    IF groups[g].state # "present" THEN NoGroup
    ELSE [found |-> TRUE,
          failureMode |-> groups[g].failureMode,
          delayBetweenTasks |-> groups[g].delayBetweenTasks,
          taskMemberships |->
              LET ordered == SortBySortOrder(members[g])
              IN [k \in 1..Len(ordered) |->
                    [taskId |-> ordered[k].taskId,
                     sortOrder |-> ordered[k].sortOrder,
                     enabled |-> taskEnabled[ordered[k].taskId]]]]

CountStatus(results, s) == Cardinality({k \in 1..Len(results) : results[k].status = s})

\* Mutant: a skip no longer prevents 'success'.
FinalStatus_IgnoresSkips(completed, failedCount, skippedCount) ==
    IF failedCount = 0 THEN "success"
    ELSE IF completed = 0 THEN "failed"
    ELSE "partial"

\* Mutant: the test for 'nothing completed' comes first.
FinalStatus_EmptyIsFailed(completed, failedCount, skippedCount) ==
    IF completed = 0 THEN "failed"
    ELSE IF failedCount = 0 /\ skippedCount = 0 THEN "success"
    ELSE "partial"

\* Lines 197-204: the final status from the three counts.
FinalStatus(completed, failedCount, skippedCount) ==
    IF failedCount = 0 /\ skippedCount = 0 THEN "success"
    ELSE IF completed = 0 THEN "failed"
    ELSE "partial"

\* `${failedCount} task(s) failed`, or null when nothing failed; 0 stands for null.
ErrorSummary(failedCount) == IF failedCount > 0 THEN failedCount ELSE 0

NewRun(g, src) ==
    [gid |-> g, src |-> src, pc |-> "load", group |-> NoGroup, sortedTasks |-> <<>>,
     execution |-> 0, i |-> 1, failed |-> FALSE, results |-> <<>>,
     invoked |-> <<>>, delays |-> 0, error |-> Null]

\* Number of elements of the bag, with their multiplicity, that lie in S.
RECURSIVE CopiesAmong(_, _)
CopiesAmong(bag, S) ==
    IF S = {} THEN 0
    ELSE LET x == CHOOSE y \in S : TRUE
         IN CopiesIn(x, bag) + CopiesAmong(bag, S \ {x})

\* Activations that have not created their execution record yet.
UnstartedCount(bag) ==
    CopiesAmong(bag, {r \in BagToSet(bag) : r.pc \in {"load", "create"}})

(***************************************************************************)
(* executeGroup, lines 101-232                                             *)
(***************************************************************************)
\* A caller invokes executeGroup(g): the activation is created and its first
\* store read is issued.
StartRun(g, src, maxRuns, maxExecs) ==
    /\ BagCardinality(runs) < maxRuns
    /\ Len(executions) + UnstartedCount(runs) < maxExecs
    /\ runs' = runs (+) SetToBag({NewRun(g, src)})

\* The run-now route of the API: executeGroup(groupId).
RunNow(maxRuns, maxExecs) ==
    \E g \in GroupIds :
        /\ StartRun(g, "manual", maxRuns, maxExecs)
        /\ UNCHANGED <<storeVars, registryVars, ops>>

\* Mutant: the null answer of getGroupWithTasks is not checked.
ExecLoad_IgnoresMissing(r) ==
    /\ r.pc = "load"
    /\ runs' = Replace(runs, r, [r EXCEPT !.pc = "create", !.group = getGroupWithTasks(r.gid)])
    /\ UNCHANGED <<storeVars, registryVars, ops>>

\* Mutant: the memberships of the group's previous run are used again instead
\* of those the store holds now.
ExecLoad_CachesMembership(r) ==
    /\ r.pc = "load"
    /\ LET group == getGroupWithTasks(r.gid)
           earlier == {k \in 1..Len(executions) :
                          executions[k].groupId = r.gid /\ executions[k].completed}
           cached == executions[CHOOSE k \in earlier : TRUE].taskResults
       IN IF ~group.found
          THEN runs' = Replace(runs, r, [r EXCEPT !.pc = "done", !.error = "not found"])
          ELSE runs' = Replace(runs, r,
                   [r EXCEPT !.pc = "create",
                             !.group = IF earlier = {} THEN group
                                       ELSE [group EXCEPT !.taskMemberships =
                                               [k \in 1..Len(cached) |->
                                                   [taskId |-> cached[k].taskId,
                                                    sortOrder |-> k - 1,
                                                    enabled |-> taskEnabled[cached[k].taskId]]]]])
    /\ UNCHANGED <<storeVars, registryVars, ops>>

\* Mutant: the run takes failure mode and delay from the defaults of
\* createGroup instead of the row the store holds.
ExecLoad_DefaultPolicy(r) ==
    /\ r.pc = "load"
    /\ LET group == getGroupWithTasks(r.gid)
       IN IF ~group.found
          THEN runs' = Replace(runs, r, [r EXCEPT !.pc = "done", !.error = "not found"])
          ELSE runs' = Replace(runs, r,
                   [r EXCEPT !.pc = "create",
                             !.group = [group EXCEPT !.failureMode = "stop",
                                                     !.delayBetweenTasks = 0]])
    /\ UNCHANGED <<storeVars, registryVars, ops>>

\* Lines 102-105: getGroupWithTasks answers; a missing group throws.
ExecLoad(r) ==
    /\ r.pc = "load"
    /\ LET group == getGroupWithTasks(r.gid)
       IN IF ~group.found
          THEN runs' = Replace(runs, r, [r EXCEPT !.pc = "done", !.error = "not found"])
          ELSE runs' = Replace(runs, r, [r EXCEPT !.pc = "create", !.group = group])
    /\ UNCHANGED <<storeVars, registryVars, ops>>

\* Lines 110-122: the 'running' record is created, then the memberships are sorted.
ExecCreate(r) ==
    /\ r.pc = "create"
    /\ executions' = Append(executions,
          [groupId |-> r.gid, status |-> "running",
           tasksTotal |-> Len(r.group.taskMemberships),
           tasksCompleted |-> 0, tasksFailed |-> 0, tasksSkipped |-> 0,
           taskResults |-> <<>>, errorMessage |-> 0, completed |-> FALSE])
    /\ runs' = Replace(runs, r,
          [r EXCEPT !.pc = "loop", !.execution = Len(executions) + 1,
                    !.sortedTasks = SortBySortOrder(r.group.taskMemberships)])
    /\ UNCHANGED <<groups, members, taskEnabled, registryVars, ops>>

Result(task, status, error) == [taskId |-> task.taskId, status |-> status, error |-> error]

\* Mutant: a disabled task is recorded as a failure of the run.
SkipDisabled_MarksFailure(r, task) ==
    [r EXCEPT !.results = Append(@, Result(task, "skipped", "Task is disabled")),
              !.failed = TRUE,
              !.i = @ + 1]

\* Lines 129-141: a disabled task is recorded as skipped; continue.
SkipDisabled(r, task) ==
    [r EXCEPT !.results = Append(@, Result(task, "skipped", "Task is disabled")),
              !.i = @ + 1]

\* Mutant: the skip after a failure moves on without recording an outcome.
SkipAfterFailure_RecordsNothing(r, task) ==
    [r EXCEPT !.i = @ + 1]

\* Lines 144-156: skipped because of a previous failure; continue.
SkipAfterFailure(r, task) ==
    [r EXCEPT !.results = Append(@, Result(task, "skipped",
                                            "Skipped due to previous task failure")),
              !.i = @ + 1]

\* Lines 159-161: schedulerService.executeTask(task) is called and awaited.
Invoke(r, task) ==
    [r EXCEPT !.pc = "task", !.invoked = Append(@, task.taskId)]

\* Mutant: the enabled flag of the task is not consulted.
LoopBranch_IgnoresEnabled(enabled, failed, failureMode) ==
    IF failed /\ failureMode = "stop" THEN "previous failure"
    ELSE "execute"

\* Mutant: a previous failure skips the rest in either failure mode.
LoopBranch_IgnoresMode(enabled, failed, failureMode) ==
    IF ~enabled THEN "disabled"
    ELSE IF failed THEN "previous failure"
    ELSE "execute"

\* Mutant: a previous failure never skips anything.
LoopBranch_NeverStops(enabled, failed, failureMode) ==
    IF ~enabled THEN "disabled"
    ELSE "execute"

\* Lines 129, 144: which of the three branches the loop body takes.
LoopBranch(enabled, failed, failureMode) ==
    IF ~enabled THEN "disabled"
    ELSE IF failed /\ failureMode = "stop" THEN "previous failure"
    ELSE "execute"

\* Mutant: the loop looks the task's enabled flag and the group's failure mode
\* up in the store at each pass.
ExecLoopStep_ReadsStore(r) ==
    /\ r.pc = "loop"
    /\ r.i <= Len(r.sortedTasks)
    /\ LET task == r.sortedTasks[r.i]
           branch == LoopBranch(taskEnabled[task.taskId], r.failed, groups[r.gid].failureMode)
       IN runs' = Replace(runs, r,
              CASE branch = "disabled" -> SkipDisabled(r, task)
                [] branch = "previous failure" -> SkipAfterFailure(r, task)
                [] OTHER -> Invoke(r, task))
    /\ UNCHANGED <<storeVars, registryVars, ops>>

\* Mutant: the delay of another run holds the worker, so the loop of this run
\* does not advance while any run sleeps.
ExecLoopStep_WaitsForDelays(r) ==
    /\ r.pc = "loop"
    /\ r.i <= Len(r.sortedTasks)
    /\ \A other \in BagToSet(runs) : other.pc # "delay"
    /\ LET task == r.sortedTasks[r.i]
           branch == LoopBranch(task.enabled, r.failed, r.group.failureMode)
       IN runs' = Replace(runs, r,
              CASE branch = "disabled" -> SkipDisabled(r, task)
                [] branch = "previous failure" -> SkipAfterFailure(r, task)
                [] OTHER -> Invoke(r, task))
    /\ UNCHANGED <<storeVars, registryVars, ops>>

\* Lines 124-161: one pass of the loop body up to its continue or its await.
ExecLoopStep(r) ==
    /\ r.pc = "loop"
    /\ r.i <= Len(r.sortedTasks)
    /\ LET task == r.sortedTasks[r.i]
           branch == LoopBranch(task.enabled, r.failed, r.group.failureMode)
       IN runs' = Replace(runs, r,
              CASE branch = "disabled" -> SkipDisabled(r, task)
                [] branch = "previous failure" -> SkipAfterFailure(r, task)
                [] OTHER -> Invoke(r, task))
    /\ UNCHANGED <<storeVars, registryVars, ops>>

\* Mutant: the outcome is put in front of the outcomes recorded so far.
TaskSucceeded_Prepends(r, task) ==
    [r EXCEPT !.results = <<Result(task, "success", "")>> \o @]

\* Lines 162-170: the executor resolved.
TaskSucceeded(r, task) ==
    [r EXCEPT !.results = Append(@, Result(task, "success", ""))]

\* Mutant: the rejection replaces the outcomes recorded so far.
TaskFailed_DropsEarlier(r, task) ==
    [r EXCEPT !.failed = TRUE,
              !.results = [k \in 1..Len(@) |-> Result(r.sortedTasks[k], "skipped",
                                                      "Skipped due to previous task failure")]
                          \o <<Result(task, "failed", "error.message")>>]

\* Mutant: a rejected member is tried again.
TaskFailed_Retries(r, task) ==
    [r EXCEPT !.failed = TRUE,
              !.results = Append(@, Result(task, "failed", "error.message")),
              !.i = @ - 1]

\* Mutant: the rejection is recorded but the flag failed is not set.
TaskFailed_LeavesFlag(r, task) ==
    [r EXCEPT !.results = Append(@, Result(task, "failed", "error.message"))]

\* Lines 171-183: the executor rejected.
TaskFailed(r, task) ==
    [r EXCEPT !.failed = TRUE,
              !.results = Append(@, Result(task, "failed", "error.message"))]

\* Mutant: the delay is also taken after the last member.
AfterTask_DelaysAfterLast(r) ==
    IF r.group.delayBetweenTasks > 0
    THEN [r EXCEPT !.pc = "delay", !.delays = @ + 1]
    ELSE [r EXCEPT !.pc = "loop", !.i = @ + 1]

\* Lines 185-189, reached after either outcome of the executor call.
AfterTask(r) ==
    IF r.i < Len(r.sortedTasks) /\ r.group.delayBetweenTasks > 0
    THEN [r EXCEPT !.pc = "delay", !.delays = @ + 1]
    ELSE [r EXCEPT !.pc = "loop", !.i = @ + 1]

\* Mutant: the rejection of the executor is not caught and ends executeGroup.
ExecTaskDone_Propagates(r, ok) ==
    /\ r.pc = "task"
    /\ LET task == r.sortedTasks[r.i]
       IN runs' = Replace(runs, r,
              IF ok THEN AfterTask(TaskSucceeded(r, task))
              ELSE [r EXCEPT !.pc = "done", !.error = "error.message"])
    /\ UNCHANGED <<storeVars, registryVars, ops>>

\* Lines 161-189: schedulerService.executeTask resolves (ok) or rejects.
ExecTaskDone(r, ok) ==
    /\ r.pc = "task"
    /\ LET task == r.sortedTasks[r.i]
       IN runs' = Replace(runs, r,
              AfterTask(IF ok THEN TaskSucceeded(r, task) ELSE TaskFailed(r, task)))
    /\ UNCHANGED <<storeVars, registryVars, ops>>

\* Line 188: the delay timer resolves.
ExecDelayDone(r) ==
    /\ r.pc = "delay"
    /\ runs' = Replace(runs, r, [r EXCEPT !.pc = "loop", !.i = @ + 1])
    /\ UNCHANGED <<storeVars, registryVars, ops>>

\* Mutant: the update addresses the group's first record instead of the
\* record this run created.
ExecFinalize_WritesFirstRecord(r) ==
    /\ r.pc = "loop"
    /\ r.i > Len(r.sortedTasks)
    /\ LET completed == CountStatus(r.results, "success")
           failedCount == CountStatus(r.results, "failed")
           skippedCount == CountStatus(r.results, "skipped")
           status == FinalStatus(completed, failedCount, skippedCount)
       IN executions' = [executions EXCEPT ![1] =
              [@ EXCEPT !.status = status,
                        !.tasksCompleted = completed,
                        !.tasksFailed = failedCount,
                        !.tasksSkipped = skippedCount,
                        !.taskResults = r.results,
                        !.errorMessage = ErrorSummary(failedCount),
                        !.completed = TRUE]]
    /\ runs' = Replace(runs, r, [r EXCEPT !.pc = "updateGroup"])
    /\ UNCHANGED <<groups, members, taskEnabled, registryVars, ops>>

\* Lines 192-218: the loop is over; counts, final status, record update.
ExecFinalize(r) ==
    /\ r.pc = "loop"
    /\ r.i > Len(r.sortedTasks)
    /\ LET completed == CountStatus(r.results, "success")
           failedCount == CountStatus(r.results, "failed")
           skippedCount == CountStatus(r.results, "skipped")
           status == FinalStatus(completed, failedCount, skippedCount)
       IN executions' = [executions EXCEPT ![r.execution] =
              [@ EXCEPT !.status = status,
                        !.tasksCompleted = completed,
                        !.tasksFailed = failedCount,
                        !.tasksSkipped = skippedCount,
                        !.taskResults = r.results,
                        !.errorMessage = ErrorSummary(failedCount),
                        !.completed = TRUE]]
    /\ runs' = Replace(runs, r, [r EXCEPT !.pc = "updateGroup"])
    /\ UNCHANGED <<groups, members, taskEnabled, registryVars, ops>>

\* Mutant: the error of the record update is swallowed and the run goes on to
\* the update of the group.
ExecFinalizeRejected_GoesOn(r) ==
    /\ r.pc = "loop"
    /\ r.i > Len(r.sortedTasks)
    /\ runs' = Replace(runs, r, [r EXCEPT !.pc = "updateGroup", !.error = "finalize failed"])
    /\ UNCHANGED <<storeVars, registryVars, ops>>

\* Lines 207-218 when the store rejects the update of the record: the await
\* throws, nothing catches it, and executeGroup rejects with that error.
ExecFinalizeRejected(r) ==
    /\ r.pc = "loop"
    /\ r.i > Len(r.sortedTasks)
    /\ runs' = Replace(runs, r, [r EXCEPT !.pc = "done", !.error = "finalize failed"])
    /\ UNCHANGED <<storeVars, registryVars, ops>>

\* Mutant: the update of the group leaves lastError as it was.
ExecUpdateGroup_KeepsLastError(r) ==
    /\ r.pc = "updateGroup"
    /\ IF groups[r.gid].state = "present"
       THEN /\ groups' = [groups EXCEPT ![r.gid] =
                   [@ EXCEPT !.lastStatus = executions[r.execution].status]]
            /\ runs' = Replace(runs, r, [r EXCEPT !.pc = "done"])
       ELSE /\ groups' = groups
            /\ runs' = Replace(runs, r, [r EXCEPT !.pc = "done", !.error = "update failed"])
    /\ UNCHANGED <<members, taskEnabled, executions, registryVars, ops>>

\* Lines 221-231: the group's last-run fields; update of a missing row throws.
ExecUpdateGroup(r) ==
    /\ r.pc = "updateGroup"
    /\ IF groups[r.gid].state = "present"
       THEN /\ groups' = [groups EXCEPT ![r.gid] =
                   [@ EXCEPT !.lastStatus = executions[r.execution].status,
                             !.lastError = executions[r.execution].errorMessage]]
            /\ runs' = Replace(runs, r, [r EXCEPT !.pc = "done"])
       ELSE /\ groups' = groups
            /\ runs' = Replace(runs, r, [r EXCEPT !.pc = "done", !.error = "update failed"])
    /\ UNCHANGED <<members, taskEnabled, executions, registryVars, ops>>

\* The promise of executeGroup settles and the activation is gone.
ExecReturn(r) ==
    /\ r.pc = "done"
    /\ runs' = runs (-) SetToBag({r})
    /\ UNCHANGED <<storeVars, registryVars, ops>>

Load == \E r \in BagToSet(runs) : ExecLoad(r)
CreateRecord == \E r \in BagToSet(runs) : ExecCreate(r)
LoopStep == \E r \in BagToSet(runs) : ExecLoopStep(r)
TaskResolves == \E r \in BagToSet(runs) : ExecTaskDone(r, TRUE)
TaskRejects == \E r \in BagToSet(runs) : ExecTaskDone(r, FALSE)
DelayDone == \E r \in BagToSet(runs) : ExecDelayDone(r)
Finalize == \E r \in BagToSet(runs) : ExecFinalize(r)
UpdateGroupStatus == \E r \in BagToSet(runs) : ExecUpdateGroup(r)
Return == \E r \in BagToSet(runs) : ExecReturn(r)
FinalizeRejected == \E r \in BagToSet(runs) : ExecFinalizeRejected(r)

(***************************************************************************)
(* SpecExec: one run of executeGroup over every small group                *)
(***************************************************************************)
\* Sort positions of the memberships, by storage index: contiguous ascending,
\* or descending with gaps.
Layouts == {"ascending", "descending"}
Position(layout, k, n) == IF layout = "ascending" THEN k - 1 ELSE 2 * (n - k)

InitExec ==
    /\ \E n \in 0..MaxMembers, layout \in Layouts,
          mode \in {"stop", "continue"}, delay \in {0, 5} :
          /\ groups = [g \in GroupIds |->
                IF g = "g1" THEN GroupRow(TRUE, ExprNightly, mode, delay) ELSE NoRow]
          /\ members = [g \in GroupIds |->
                IF g = "g1"
                THEN [k \in 1..n |-> [taskId |-> k, sortOrder |-> Position(layout, k, n)]]
                ELSE <<>>]
          /\ taskEnabled \in {f \in [TaskIds -> BOOLEAN] : \A t \in TaskIds : t > n => f[t]}
    /\ executions = <<>>
    /\ scheduledGroups = [g \in GroupIds |-> NoTimer]
    /\ timers = EmptyBag
    /\ ops = EmptyBag
    /\ runs = EmptyBag

\* The run-now route: executeGroup called once for some group id.
RunOnce == RunNow(1, 1)

NextExec ==
    \/ RunOnce
    \/ Load
    \/ CreateRecord
    \/ LoopStep
    \/ TaskResolves
    \/ TaskRejects
    \/ DelayDone
    \/ Finalize
    \/ UpdateGroupStatus
    \/ Return

SpecExec == InitExec /\ [][NextExec]_vars

\* One step of an activation of executeGroup.
RunStep ==
    \/ Load
    \/ CreateRecord
    \/ LoopStep
    \/ TaskResolves
    \/ TaskRejects
    \/ DelayDone
    \/ Finalize
    \/ UpdateGroupStatus
    \/ Return

\* The event loop resumes the activation whenever its awaited promise has
\* settled: store calls answer, each executor call settles one way or the
\* other, and the delay timer of line 235 expires.
FairExec == WF_vars(RunStep)

SpecExecLive == SpecExec /\ FairExec

(***************************************************************************)
(* SpecPersist: one run over a store that may reject the record update     *)
(***************************************************************************)
NextPersist ==
    \/ NextExec
    \/ FinalizeRejected

SpecPersist == InitExec /\ [][NextPersist]_vars

(***************************************************************************)
(* The registry: scheduleGroup, lines 74-96, and its callers               *)
(***************************************************************************)
\* cron.validate of node-cron: the expression has five fields.
cronValidate(expr) == Len(expr) = 5

\* cron.trim().split(/\s+/) of the form's isValidCron: the fields of the
\* expression; the empty string splits into one empty field.
SplitFields(expr) == IF expr = ExprEmpty THEN <<"">> ELSE expr

\* isValidCron of TaskGroupModal: parts.length === 5.
isValidCron(expr) == Len(SplitFields(expr)) = 5

\* JavaScript truthiness of the expression string: only "" is falsy.
Truthy(expr) == expr # ExprEmpty

Registry == [map |-> scheduledGroups, armed |-> timers]

\* Lines 81-84, 309-312, 323-326: stop the group's timer and drop its entry.
Unregister(reg, g) ==
    IF reg.map[g] # NoTimer
    THEN [map |-> [reg.map EXCEPT ![g] = NoTimer],
          armed |-> reg.armed (-) SetToBag({reg.map[g]})]
    ELSE reg

\* Mutant: the existing timer of the group is not stopped before the new one
\* replaces it in the map.
scheduleGroup_KeepsOldTimer(reg, g, expr) ==
    IF ~cronValidate(expr) THEN reg
    ELSE LET cronTask == [gid |-> g, expr |-> expr]
         IN [map |-> [reg.map EXCEPT ![g] = cronTask],
             armed |-> reg.armed (+) SetToBag({cronTask})]

\* Mutant: the existing timer is stopped before the expression is validated.
scheduleGroup_StopsFirst(reg, g, expr) ==
    LET cleared == Unregister(reg, g)
        cronTask == [gid |-> g, expr |-> expr]
    IN IF ~cronValidate(expr) THEN cleared
       ELSE [map |-> [cleared.map EXCEPT ![g] = cronTask],
             armed |-> cleared.armed (+) SetToBag({cronTask})]

\* Lines 74-96. The callback of the new timer keeps only group.id.
scheduleGroup(reg, g, expr) ==
    IF ~cronValidate(expr) THEN reg
    ELSE LET cleared == Unregister(reg, g)
             cronTask == [gid |-> g, expr |-> expr]
         IN [map |-> [cleared.map EXCEPT ![g] = cronTask],
             armed |-> cleared.armed (+) SetToBag({cronTask})]

\* Lines 74-96: whether scheduleGroup ends by throwing to its caller. It is
\* void and has no throw: it returns at line 77, after logger.error, when the
\* validation fails, and at line 96 otherwise.
scheduleGroupThrows(expr) == IF ~cronValidate(expr) THEN FALSE ELSE FALSE

SetRegistry(reg) ==
    /\ scheduledGroups' = reg.map
    /\ timers' = reg.armed

Op(kind, g, enabled, expr, rows) ==
    [kind |-> kind, gid |-> g, enabled |-> enabled, expr |-> expr, rows |-> rows]

\* Lines 51-53: findMany({ where: { enabled: true } }) answers.
LoadTaskGroupsFind ==
    /\ BagCardinality(ops) < MaxOps
    /\ ops' = ops (+) SetToBag({Op("load", Null, TRUE, <<>>,
                 {[gid |-> g, expr |-> groups[g].cronExpression] :
                     g \in {x \in GroupIds : groups[x].state = "present" /\ groups[x].enabled}})})
    /\ UNCHANGED <<storeVars, registryVars, runs>>

RECURSIVE ScheduleAll(_, _)
ScheduleAll(reg, rows) ==
    IF rows = {} THEN reg
    ELSE LET row == CHOOSE x \in rows : TRUE
         IN ScheduleAll(scheduleGroup(reg, row.gid, row.expr), rows \ {row})

\* Mutant: a group that fails to register ends the loop, so no group is
\* scheduled when one of them has an invalid expression.
LoadTaskGroupsCont_AbortsOnInvalid ==
    \E op \in BagToSet(ops) :
        /\ op.kind = "load"
        /\ SetRegistry(IF \E row \in op.rows : ~cronValidate(row.expr)
                       THEN Registry
                       ELSE ScheduleAll(Registry, op.rows))
        /\ ops' = ops (-) SetToBag({op})
        /\ UNCHANGED <<storeVars, runs>>

\* Lines 55-65: every group that was found is scheduled.
LoadTaskGroupsCont ==
    \E op \in BagToSet(ops) :
        /\ op.kind = "load"
        /\ SetRegistry(ScheduleAll(Registry, op.rows))
        /\ ops' = ops (-) SetToBag({op})
        /\ UNCHANGED <<storeVars, runs>>

\* scheduleGroup called by itself with a group row read from the store.
ScheduleGroupCall ==
    \E g \in GroupIds :
        /\ groups[g].state = "present"
        /\ SetRegistry(scheduleGroup(Registry, g, groups[g].cronExpression))
        /\ UNCHANGED <<storeVars, ops, runs>>

\* Lines 254-267: validation, then the row is inserted under a fresh id; the
\* optional failureMode, delayBetweenTasks and taskIds take their defaults.
CreateGroupWrite ==
    \E expr \in Exprs, enabled \in BOOLEAN :
        /\ cronValidate(expr)
        /\ BagCardinality(ops) < MaxOps
        /\ Cardinality({x \in GroupIds : groups[x].state # "none"}) < MaxGroups
        /\ LET g == IF groups["g1"].state = "none" THEN "g1" ELSE "g2"
           IN /\ groups[g].state = "none"
              /\ groups' = [groups EXCEPT ![g] = GroupRow(enabled, expr, "stop", 0)]
              /\ ops' = ops (+) SetToBag({Op("create", g, enabled, expr, {})})
        /\ UNCHANGED <<members, taskEnabled, executions, registryVars, runs>>

\* Lines 276-281, after the addTask calls (if any) have returned: the created
\* row is scheduled when it is enabled.
CreateGroupCont ==
    \E op \in BagToSet(ops) :
        /\ op.kind = "create"
        /\ op.rows = {}
        /\ SetRegistry(IF op.enabled THEN scheduleGroup(Registry, op.gid, op.expr)
                       ELSE Registry)
        /\ ops' = ops (-) SetToBag({op})
        /\ UNCHANGED <<storeVars, runs>>

\* Lines 295-302: validation of a truthy expression, then the row update;
\* field is the one key of data.
UpdateGroupWrite(g, field, value) ==
    /\ field = "cronExpression" => (Truthy(value) => cronValidate(value))
    /\ BagCardinality(ops) < MaxOps
    /\ groups[g].state = "present"
    /\ LET row == CASE field = "enabled" -> [groups[g] EXCEPT !.enabled = value]
                    [] field = "failureMode" -> [groups[g] EXCEPT !.failureMode = value]
                    [] field = "delayBetweenTasks" ->
                           [groups[g] EXCEPT !.delayBetweenTasks = value]
                    [] OTHER -> [groups[g] EXCEPT !.cronExpression = value]
       IN /\ groups' = [groups EXCEPT ![g] = row]
          /\ ops' = ops (+) SetToBag({Op("update", g, row.enabled, row.cronExpression, {})})
    /\ UNCHANGED <<members, taskEnabled, executions, registryVars, runs>>

UpdateGroup ==
    \E g \in GroupIds, expr \in Exprs : UpdateGroupWrite(g, "cronExpression", expr)

\* Lines 338-340.
ToggleGroup ==
    \E g \in GroupIds, enabled \in BOOLEAN : UpdateGroupWrite(g, "enabled", enabled)

\* Lines 304-315: reschedule the returned row if enabled, else unregister.
UpdateGroupCont ==
    \E op \in BagToSet(ops) :
        /\ op.kind = "update"
        /\ SetRegistry(IF op.enabled THEN scheduleGroup(Registry, op.gid, op.expr)
                       ELSE Unregister(Registry, op.gid))
        /\ ops' = ops (-) SetToBag({op})
        /\ UNCHANGED <<storeVars, runs>>

\* Lines 321-330: the timer is unregistered, then the row delete is issued
\* (for any id that was ever handed out).
DeleteGroupCall ==
    \E g \in GroupIds :
        /\ groups[g].state # "none"
        /\ BagCardinality(ops) < MaxOps
        /\ SetRegistry(Unregister(Registry, g))
        /\ ops' = ops (+) SetToBag({Op("delete", g, FALSE, <<>>, {})})
        /\ UNCHANGED <<storeVars, runs>>

\* Lines 328-332: the row is deleted and deleteGroup completes; the delete of a
\* missing row throws and changes nothing.
DeleteGroupDone ==
    \E op \in BagToSet(ops) :
        /\ op.kind = "delete"
        /\ groups' = [groups EXCEPT ![op.gid] =
              IF @.state = "present" THEN DeletedRow ELSE @]
        /\ ops' = ops (-) SetToBag({op})
        /\ UNCHANGED <<members, taskEnabled, executions, registryVars, runs>>

RECURSIVE StopAll(_, _)
StopAll(reg, ids) ==
    IF ids = {} THEN reg
    ELSE LET g == CHOOSE x \in ids : TRUE
         IN StopAll([map |-> reg.map, armed |-> reg.armed (-) SetToBag({reg.map[g]})],
                    ids \ {g})

\* Mutant: the map is cleared without stopping its timers.
Cleanup_ClearsWithoutStopping ==
    /\ SetRegistry([map |-> [g \in GroupIds |-> NoTimer], armed |-> timers])
    /\ UNCHANGED <<storeVars, ops, runs>>

\* Lines 464-472: every timer of the map is stopped, then the map is cleared.
Cleanup ==
    /\ LET stopped == StopAll(Registry, {g \in GroupIds : scheduledGroups[g] # NoTimer})
       IN SetRegistry([map |-> [g \in GroupIds |-> NoTimer], armed |-> stopped.armed])
    /\ UNCHANGED <<storeVars, ops, runs>>

\* Lines 86-92: an armed timer reaches a fire time and calls executeGroup(group.id).
FireTimer(t, maxRuns, maxExecs) ==
    /\ StartRun(t.gid, "timer", maxRuns, maxExecs)
    /\ UNCHANGED <<storeVars, registryVars, ops>>

TimerFire(maxRuns, maxExecs) ==
    \E t \in BagToSet(timers) : FireTimer(t, maxRuns, maxExecs)

(***************************************************************************)
(* Spec: the registry under every operation that touches it                *)
(***************************************************************************)
\* The state after construction over an empty store: an empty registry,
\* nothing in flight.
Init ==
    /\ groups = [g \in GroupIds |-> NoRow]
    /\ members = [g \in GroupIds |-> <<>>]
    /\ taskEnabled = [t \in TaskIds |-> TRUE]
    /\ executions = <<>>
    /\ scheduledGroups = [g \in GroupIds |-> NoTimer]
    /\ timers = EmptyBag
    /\ ops = EmptyBag
    /\ runs = EmptyBag

Next ==
    \/ LoadTaskGroupsFind
    \/ LoadTaskGroupsCont
    \/ ScheduleGroupCall
    \/ CreateGroupWrite
    \/ CreateGroupCont
    \/ UpdateGroup
    \/ ToggleGroup
    \/ UpdateGroupCont
    \/ DeleteGroupCall
    \/ DeleteGroupDone
    \/ Cleanup

Spec == Init /\ [][Next]_vars

(***************************************************************************)
(* SpecFire: the handlers of one stored group racing with its timer        *)
(***************************************************************************)
\* The state after construction over a store that holds one enabled group
\* without members.
InitFire ==
    /\ groups = [g \in GroupIds |->
          IF g = "g1" THEN GroupRow(TRUE, ExprNightly, "stop", 0) ELSE NoRow]
    /\ members = [g \in GroupIds |-> <<>>]
    /\ taskEnabled = [t \in TaskIds |-> TRUE]
    /\ executions = <<>>
    /\ scheduledGroups = [g \in GroupIds |-> NoTimer]
    /\ timers = EmptyBag
    /\ ops = EmptyBag
    /\ runs = EmptyBag

\* One run at a time, one execution record in all.
FireSingle == TimerFire(1, 1)

NextFire ==
    \/ LoadTaskGroupsFind
    \/ LoadTaskGroupsCont
    \/ UpdateGroup
    \/ ToggleGroup
    \/ UpdateGroupCont
    \/ DeleteGroupCall
    \/ DeleteGroupDone
    \/ Cleanup
    \/ FireSingle
    \/ Load
    \/ CreateRecord
    \/ Finalize
    \/ UpdateGroupStatus
    \/ Return

SpecFire == InitFire /\ [][NextFire]_vars

\* SpecFire with an event loop that resumes the activations of executeGroup.
SpecFireLive == SpecFire /\ FairExec

(***************************************************************************)
(* SpecRuns: timer firings and run-now requests racing on the same group   *)
(***************************************************************************)
\* The state after construction over a store that holds one enabled group of
\* two enabled tasks with a delay between them.
InitRuns ==
    /\ groups = [g \in GroupIds |->
          IF g = "g1" THEN GroupRow(TRUE, ExprNightly, "stop", 5) ELSE NoRow]
    /\ members = [g \in GroupIds |->
          IF g = "g1" THEN <<[taskId |-> 1, sortOrder |-> 0], [taskId |-> 2, sortOrder |-> 1]>>
          ELSE <<>>]
    /\ taskEnabled = [t \in TaskIds |-> TRUE]
    /\ executions = <<>>
    /\ scheduledGroups = [g \in GroupIds |-> NoTimer]
    /\ timers = EmptyBag
    /\ ops = EmptyBag
    /\ runs = EmptyBag

Fire == TimerFire(MaxRuns, MaxExecs)
RunRequest == RunNow(MaxRuns, MaxExecs)

NextRuns ==
    \/ LoadTaskGroupsFind
    \/ LoadTaskGroupsCont
    \/ Fire
    \/ RunRequest
    \/ Load
    \/ CreateRecord
    \/ LoopStep
    \/ TaskResolves
    \/ TaskRejects
    \/ DelayDone
    \/ Finalize
    \/ UpdateGroupStatus
    \/ Return

SpecRuns == InitRuns /\ [][NextRuns]_vars

(***************************************************************************)
(* SpecGroups: the timers and runs of two groups                           *)
(***************************************************************************)
\* The state after construction over a store that holds two enabled groups:
\* g1 with two tasks and a delay between them, g2 with one task.
InitGroups ==
    /\ groups = [g \in GroupIds |->
          IF g = "g1" THEN GroupRow(TRUE, ExprNightly, "stop", 5)
          ELSE GroupRow(TRUE, ExprFive, "stop", 0)]
    /\ members = [g \in GroupIds |->
          IF g = "g1" THEN <<[taskId |-> 1, sortOrder |-> 0], [taskId |-> 2, sortOrder |-> 1]>>
          ELSE <<[taskId |-> 3, sortOrder |-> 0]>>]
    /\ taskEnabled = [t \in TaskIds |-> TRUE]
    /\ executions = <<>>
    /\ scheduledGroups = [g \in GroupIds |-> NoTimer]
    /\ timers = EmptyBag
    /\ ops = EmptyBag
    /\ runs = EmptyBag

\* Two runs in flight at most, two execution records in all.
FirePair == TimerFire(2, 2)

NextGroups ==
    \/ LoadTaskGroupsFind
    \/ LoadTaskGroupsCont
    \/ ToggleGroup
    \/ UpdateGroupCont
    \/ FirePair
    \/ Load
    \/ CreateRecord
    \/ LoopStep
    \/ TaskResolves
    \/ TaskRejects
    \/ DelayDone
    \/ Finalize
    \/ UpdateGroupStatus
    \/ Return

SpecGroups == InitGroups /\ [][NextGroups]_vars

(***************************************************************************)
(* SpecLoad: loadTaskGroups over every small store                         *)
(***************************************************************************)
\* What the store may hold for one group id: nothing, or a row of either
\* enabled flag with any expression (rows are not validated when read).
StoredRows ==
    {NoRow} \cup {GroupRow(enabled, expr, "stop", 0) : enabled \in BOOLEAN, expr \in Exprs}

\* The state after construction over any such store.
InitLoad ==
    /\ groups \in [GroupIds -> StoredRows]
    /\ members = [g \in GroupIds |-> <<>>]
    /\ taskEnabled = [t \in TaskIds |-> TRUE]
    /\ executions = <<>>
    /\ scheduledGroups = [g \in GroupIds |-> NoTimer]
    /\ timers = EmptyBag
    /\ ops = EmptyBag
    /\ runs = EmptyBag

NextLoad ==
    \/ LoadTaskGroupsFind
    \/ LoadTaskGroupsCont
    \/ Cleanup

SpecLoad == InitLoad /\ [][NextLoad]_vars

(***************************************************************************)
(* Membership management, lines 349-389, and createGroup with taskIds      *)
(***************************************************************************)
\* The task ids and the explicit sort positions the membership calls are
\* made with.
MemberTasks == 1..MaxTasks
Positions == 0..(MaxTasks - 1)

\* The taskIds arguments: every list of one to MaxTasks task ids.
TaskLists == UNION {[1..n -> MemberTasks] : n \in 1..MaxTasks}

HasMember(g, t) == \E k \in 1..Len(members[g]) : members[g][k].taskId = t

\* _max.sortOrder of the aggregate of lines 352-355; null (here -1, which
\* line 356 turns it into) when the group has no member.
MaxSortOrder(g) ==
    IF members[g] = <<>> THEN -1
    ELSE LET k == CHOOSE j \in 1..Len(members[g]) :
                      \A l \in 1..Len(members[g]) :
                          members[g][l].sortOrder <= members[g][j].sortOrder
         IN members[g][k].sortOrder

\* The writes a handler still has to issue, as rows; the next one is the row
\* of the smallest position.
NextRow(rows) == CHOOSE row \in rows : \A other \in rows : row.sortOrder <= other.sortOrder
PendingRows(taskIds, from) ==
    {[taskId |-> taskIds[i], sortOrder |-> i - 1] : i \in from..Len(taskIds)}

\* taskGroupMember.create accepts the row: its group exists and the pair
\* (groupId, taskId), the key groupId_taskId of lines 371 and 383, is new.
\* The sort position is not part of any key.
CreateAccepted(g, t) == groups[g].state = "present" /\ ~HasMember(g, t)

\* Lines 359-361: the row is inserted, or the create throws and the table is
\* as it was.
CreateMember(g, t, pos) ==
    IF CreateAccepted(g, t)
    THEN [members EXCEPT ![g] = Append(@, [taskId |-> t, sortOrder |-> pos])]
    ELSE members

\* Lines 382-385: the member's position is overwritten; the update of a
\* missing row throws and the table is as it was.
UpdateMember(g, t, pos) ==
    LET ms == members[g]
    IN [members EXCEPT ![g] =
           [k \in 1..Len(ms) |->
               IF ms[k].taskId = t THEN [ms[k] EXCEPT !.sortOrder = pos] ELSE ms[k]]]

\* Lines 349-364 with an explicit sortOrder: one create.
AddTaskWith(tasks, positions) ==
    \E g \in GroupIds, t \in tasks, pos \in positions :
        /\ members' = CreateMember(g, t, pos)
        /\ UNCHANGED <<groups, taskEnabled, executions, registryVars, ops, runs>>

AddTaskAt == AddTaskWith(MemberTasks, Positions)

\* Lines 351-356, sortOrder undefined: the aggregate answers and the next
\* position is computed from it.
AddTaskFindMax ==
    \E g \in GroupIds, t \in MemberTasks :
        /\ groups[g].state = "present"
        /\ BagCardinality(ops) < MaxOps
        /\ MaxSortOrder(g) + 1 <= MaxTasks
        /\ ops' = ops (+) SetToBag({Op("addTask", g, FALSE, <<>>,
                     {[taskId |-> t, sortOrder |-> MaxSortOrder(g) + 1]})})
        /\ UNCHANGED <<storeVars, registryVars, runs>>

\* Lines 359-363: the create with the position computed before the await.
AddTaskCreate ==
    \E op \in BagToSet(ops) :
        /\ op.kind = "addTask"
        /\ LET row == NextRow(op.rows)
           IN members' = CreateMember(op.gid, row.taskId, row.sortOrder)
        /\ ops' = ops (-) SetToBag({op})
        /\ UNCHANGED <<groups, taskEnabled, executions, registryVars, runs>>

\* Lines 369-375: the row of the pair is deleted; the delete of a missing row
\* throws.
RemoveTaskOf(tasks) ==
    \E g \in GroupIds, t \in tasks :
        /\ HasMember(g, t)
        /\ members' = [members EXCEPT ![g] = SelectSeq(@, LAMBDA m : m.taskId # t)]
        /\ UNCHANGED <<groups, taskEnabled, executions, registryVars, ops, runs>>

RemoveTask == RemoveTaskOf(MemberTasks)

\* Lines 380-386, first pass of the loop: taskIds[0] gets position 0. A
\* missing row ends reorderTasks with the error of the update.
ReorderTasksBy(lists, maxOps) ==
    \E g \in GroupIds, taskIds \in lists :
        /\ BagCardinality(ops) < maxOps
        /\ members' = UpdateMember(g, taskIds[1], 0)
        /\ ops' = IF HasMember(g, taskIds[1]) /\ Len(taskIds) > 1
                  THEN ops (+) SetToBag({Op("reorder", g, FALSE, <<>>, PendingRows(taskIds, 2))})
                  ELSE ops
        /\ UNCHANGED <<groups, taskEnabled, executions, registryVars, runs>>

ReorderTasksCall == ReorderTasksBy(TaskLists, MaxOps)

\* Lines 381-386, a later pass: taskIds[i] gets position i.
ReorderTasksStep ==
    \E op \in BagToSet(ops) :
        /\ op.kind = "reorder"
        /\ LET row == NextRow(op.rows)
               rest == op.rows \ {row}
           IN /\ members' = UpdateMember(op.gid, row.taskId, row.sortOrder)
              /\ ops' = IF HasMember(op.gid, row.taskId) /\ rest # {}
                        THEN Replace(ops, op, [op EXCEPT !.rows = rest])
                        ELSE ops (-) SetToBag({op})
        /\ UNCHANGED <<groups, taskEnabled, executions, registryVars, runs>>

\* Lines 254-267 of a createGroup whose data has taskIds: the row is inserted
\* under a fresh id, enabled by default; the addTask calls are still to come.
CreateGroupTasksWrite(maxGroups) ==
    \E expr \in ValidExprs, taskIds \in TaskLists :
        /\ BagCardinality(ops) < MaxOps
        /\ Cardinality({x \in GroupIds : groups[x].state # "none"}) < maxGroups
        /\ LET g == IF groups["g1"].state = "none" THEN "g1" ELSE "g2"
           IN /\ groups[g].state = "none"
              /\ groups' = [groups EXCEPT ![g] = GroupRow(TRUE, expr, "stop", 0)]
              /\ ops' = ops (+) SetToBag({Op("create", g, TRUE, expr, PendingRows(taskIds, 1))})
        /\ UNCHANGED <<members, taskEnabled, executions, registryVars, runs>>

\* Lines 270-274: addTask(group.id, data.taskIds[i], i). A create that throws
\* ends createGroup before line 276.
CreateGroupAddTask ==
    \E op \in BagToSet(ops) :
        /\ op.kind = "create"
        /\ op.rows # {}
        /\ LET row == NextRow(op.rows)
           IN /\ members' = CreateMember(op.gid, row.taskId, row.sortOrder)
              /\ ops' = IF CreateAccepted(op.gid, row.taskId)
                        THEN Replace(ops, op, [op EXCEPT !.rows = @ \ {row}])
                        ELSE ops (-) SetToBag({op})
        /\ UNCHANGED <<groups, taskEnabled, executions, registryVars, runs>>

(***************************************************************************)
(* SpecMembers: the membership calls racing on one group                   *)
(***************************************************************************)
CreateGroupWithTasks == CreateGroupTasksWrite(1)

NextMembers ==
    \/ CreateGroupWithTasks
    \/ CreateGroupAddTask
    \/ CreateGroupCont
    \/ AddTaskAt
    \/ AddTaskFindMax
    \/ AddTaskCreate
    \/ RemoveTask
    \/ ReorderTasksCall
    \/ ReorderTasksStep

SpecMembers == Init /\ [][NextMembers]_vars

(***************************************************************************)
(* SpecReload: the membership calls on a stored group, and its runs        *)
(***************************************************************************)
\* The tasks of the stored group of InitRuns, the positions it uses, and the
\* lists reorderTasks is called with.
GroupTasks == {1, 2}
GroupPositions == {0, 1}
GroupLists == {<<1>>, <<2>>, <<1, 2>>, <<2, 1>>}

ReloadAddTask == AddTaskWith(GroupTasks, GroupPositions)
ReloadRemoveTask == RemoveTaskOf(GroupTasks)
ReloadReorder == ReorderTasksBy(GroupLists, 1)

\* One run at a time, two in all.
RunAgain == RunNow(1, 2)

NextReload ==
    \/ LoadTaskGroupsFind
    \/ LoadTaskGroupsCont
    \/ RunAgain
    \/ Load
    \/ CreateRecord
    \/ LoopStep
    \/ TaskResolves
    \/ TaskRejects
    \/ DelayDone
    \/ Finalize
    \/ UpdateGroupStatus
    \/ Return
    \/ ReloadAddTask
    \/ ReloadRemoveTask
    \/ ReloadReorder
    \/ ReorderTasksStep

SpecReload == InitRuns /\ [][NextReload]_vars

(***************************************************************************)
(* SpecSnapshot: one run, and the store changing under it                  *)
(***************************************************************************)
\* The state after construction over a store that holds one enabled group of
\* two tasks, with either failure mode, with or without a delay, each task
\* enabled or not.
InitSnapshot ==
    /\ \E mode \in {"stop", "continue"}, delay \in {0, 5} :
          groups = [g \in GroupIds |->
              IF g = "g1" THEN GroupRow(TRUE, ExprNightly, mode, delay) ELSE NoRow]
    /\ members = [g \in GroupIds |->
          IF g = "g1" THEN <<[taskId |-> 1, sortOrder |-> 0], [taskId |-> 2, sortOrder |-> 1]>>
          ELSE <<>>]
    /\ taskEnabled \in {f \in [TaskIds -> BOOLEAN] : \A t \in TaskIds \ GroupTasks : f[t]}
    /\ executions = <<>>
    /\ scheduledGroups = [g \in GroupIds |-> NoTimer]
    /\ timers = EmptyBag
    /\ ops = EmptyBag
    /\ runs = EmptyBag

\* A run holds the group it read and has not ended.
InFlight == \E r \in BagToSet(runs) : r.pc \notin {"load", "done"}

\* The update route of a task writes the enabled flag of its row.
SetTaskEnabled(tasks) ==
    \E t \in tasks, enabled \in BOOLEAN :
        /\ taskEnabled' = [taskEnabled EXCEPT ![t] = enabled]
        /\ UNCHANGED <<groups, members, executions, registryVars, ops, runs>>

\* updateGroup(groupId, { failureMode }) and updateGroup(groupId, { delayBetweenTasks }).
UpdatePolicy ==
    \E g \in GroupIds :
        \/ \E mode \in {"stop", "continue"} : UpdateGroupWrite(g, "failureMode", mode)
        \/ \E delay \in {0, 5} : UpdateGroupWrite(g, "delayBetweenTasks", delay)

\* The calls other clients make while the run is in flight; this
\* specification follows the store from the moment the run has read the group.
ChangeTaskEnabled == InFlight /\ SetTaskEnabled(GroupTasks)
ChangePolicy == InFlight /\ UpdatePolicy
ChangeAddTask == InFlight /\ ReloadAddTask
ChangeRemoveTask == InFlight /\ ReloadRemoveTask
ChangeOrder == InFlight /\ ReloadReorder

NextSnapshot ==
    \/ RunOnce
    \/ Load
    \/ CreateRecord
    \/ LoopStep
    \/ TaskResolves
    \/ TaskRejects
    \/ DelayDone
    \/ Finalize
    \/ UpdateGroupStatus
    \/ Return
    \/ ChangeTaskEnabled
    \/ ChangePolicy
    \/ UpdateGroupCont
    \/ ChangeAddTask
    \/ ChangeRemoveTask
    \/ ChangeOrder
    \/ ReorderTasksStep

SpecSnapshot == InitSnapshot /\ [][NextSnapshot]_vars

(***************************************************************************)
(* SpecStored: the store changing between a registration and a firing      *)
(***************************************************************************)
\* No run has read the group yet: every activation still waits for the answer
\* of its first read.
Idle == \A r \in BagToSet(runs) : r.pc = "load"

\* updateGroup(groupId, { cronExpression }) with an expression that passes.
UpdateExpression ==
    \E g \in GroupIds, expr \in ValidExprs : UpdateGroupWrite(g, "cronExpression", expr)

\* The calls made before the firing; this specification follows the store up
\* to the firing and the run from there.
StoredAddTask == Idle /\ ReloadAddTask
StoredRemoveTask == Idle /\ ReloadRemoveTask
StoredReorder == Idle /\ ReloadReorder
StoredPolicy == Idle /\ UpdatePolicy
StoredExpression == Idle /\ UpdateExpression

NextStored ==
    \/ LoadTaskGroupsFind
    \/ LoadTaskGroupsCont
    \/ FireSingle
    \/ Load
    \/ CreateRecord
    \/ LoopStep
    \/ TaskResolves
    \/ TaskRejects
    \/ DelayDone
    \/ Finalize
    \/ UpdateGroupStatus
    \/ Return
    \/ StoredAddTask
    \/ StoredRemoveTask
    \/ StoredReorder
    \/ ReorderTasksStep
    \/ StoredPolicy
    \/ StoredExpression
    \/ UpdateGroupCont

SpecStored == InitRuns /\ [][NextStored]_vars

(***************************************************************************)
(* Properties of one run (checked under SpecExec)                          *)
(***************************************************************************)
\* The run has written its final record.
Finalized(r) == r.pc \in {"updateGroup", "done"} /\ r.execution > 0
Record(r) == executions[r.execution]
Size(r) == Len(r.sortedTasks)
AllEnabled(r) == \A k \in 1..Size(r) : r.sortedTasks[k].enabled
AllDisabled(r) == \A k \in 1..Size(r) : ~r.sortedTasks[k].enabled
FailedAt(r) == {k \in 1..Len(r.results) : r.results[k].status = "failed"}
FirstFailure(r) == CHOOSE k \in FailedAt(r) : \A j \in FailedAt(r) : k <= j
TaskAt(r, k) == r.sortedTasks[k].taskId
IsPrefix(s, t) == Len(s) <= Len(t) /\ \A k \in 1..Len(s) : s[k] = t[k]

\* C1: every finalized record has status 'success' exactly when no member
\* failed and none was skipped, otherwise 'failed' exactly when no member
\* succeeded, otherwise 'partial'; a 'success' record has no skip and no failure.
C1_FinalStatusRule ==
    \A k \in 1..Len(executions) :
        LET e == executions[k]
            c == CountStatus(e.taskResults, "success")
            f == CountStatus(e.taskResults, "failed")
            sk == CountStatus(e.taskResults, "skipped")
            clean == f = 0 /\ sk = 0
        IN e.completed =>
              /\ e.status \in {"success", "failed", "partial"}
              /\ (e.status = "success") <=> clean
              /\ (e.status = "failed") <=> (~clean /\ c = 0)
              /\ (e.status = "partial") <=> (~clean /\ c # 0)
              /\ e.status = "success" => (e.tasksSkipped = 0 /\ e.tasksFailed = 0)

\* Witness of C1: a finalized record without any failure whose skip alone
\* keeps it from 'success'.
C1_Witness ==
    \E k \in 1..Len(executions) :
        /\ executions[k].completed
        /\ executions[k].tasksFailed = 0
        /\ executions[k].tasksSkipped > 0
        /\ executions[k].tasksCompleted > 0
        /\ executions[k].status = "partial"

AllDisabledOutcome(r, status) ==
    /\ Len(r.results) = Size(r)
    /\ \A k \in 1..Size(r) : r.results[k].status = "skipped"
    /\ r.invoked = <<>>
    /\ Record(r).tasksCompleted = 0
    /\ Record(r).status = status

\* C2 as claimed: a run of a non-empty group whose member tasks are all
\* disabled skips every member, calls no executor and ends 'partial'.
C2_AllDisabledIsPartial ==
    \A r \in BagToSet(runs) :
        (Finalized(r) /\ Size(r) >= 1 /\ AllDisabled(r)) => AllDisabledOutcome(r, "partial")

\* C2 amended: a run of a non-empty group whose member tasks are all disabled
\* skips every member, calls no executor and ends 'failed' with tasksCompleted = 0.
C2_AllDisabledIsFailed ==
    \A r \in BagToSet(runs) :
        (Finalized(r) /\ Size(r) >= 1 /\ AllDisabled(r)) => AllDisabledOutcome(r, "failed")

\* Witness of C2: a finalized run over two or more members, all disabled.
C2_Witness ==
    \E r \in BagToSet(runs) : Finalized(r) /\ Size(r) >= 2 /\ AllDisabled(r)

OneErrorContinue(r) ==
    /\ Finalized(r)
    /\ r.group.failureMode = "continue"
    /\ Size(r) >= 1
    /\ AllEnabled(r)
    /\ Cardinality(FailedAt(r)) = 1

OneErrorCounts(r) ==
    /\ Len(r.invoked) = Size(r)
    /\ Len(Record(r).taskResults) = Size(r)
    /\ Record(r).tasksCompleted = Size(r) - 1
    /\ Record(r).tasksFailed = 1
    /\ Record(r).tasksSkipped = 0

\* C3 as claimed: in 'continue' mode with N >= 1 enabled members of which
\* exactly one errors, all N are executed and the record is 'partial' with
\* counts N-1 / 1 / 0.
C3_OneErrorIsPartial ==
    \A r \in BagToSet(runs) :
        OneErrorContinue(r) => (OneErrorCounts(r) /\ Record(r).status = "partial")

\* C3 amended: in 'continue' mode with N >= 1 enabled members of which exactly
\* one errors, all N are executed and the counts are N-1 / 1 / 0; the status
\* is 'partial' for N >= 2 and 'failed' for N = 1.
C3_OneErrorContinue ==
    \A r \in BagToSet(runs) :
        OneErrorContinue(r) =>
            /\ OneErrorCounts(r)
            /\ Record(r).status = IF Size(r) >= 2 THEN "partial" ELSE "failed"

\* Witness of C3: a finalized 'continue' run of three or more enabled members
\* whose first member errored.
C3_Witness ==
    \E r \in BagToSet(runs) :
        OneErrorContinue(r) /\ Size(r) >= 3 /\ FailedAt(r) = {1}

\* C4: in 'stop' mode with N enabled members, when position k is the first to
\* error, the members after k are skipped and never executed and the counts are
\* k-1 / 1 / N-k; for k = 2, N = 4 the status is 'partial'.
C4_StopSkipsRest ==
    \A r \in BagToSet(runs) :
        (Finalized(r) /\ r.group.failureMode = "stop" /\ AllEnabled(r) /\ FailedAt(r) # {}) =>
            LET k == FirstFailure(r)
                n == Size(r)
            IN /\ Len(r.results) = n
               /\ \A j \in (k + 1)..n : r.results[j].status = "skipped"
               /\ r.invoked = [j \in 1..k |-> TaskAt(r, j)]
               /\ Record(r).tasksCompleted = k - 1
               /\ Record(r).tasksFailed = 1
               /\ Record(r).tasksSkipped = n - k
               /\ (k = 2 /\ n = 4) => Record(r).status = "partial"

\* Witness of C4: a finalized 'stop' run of four enabled members whose second
\* member errored.
C4_Witness ==
    \E r \in BagToSet(runs) :
        /\ Finalized(r) /\ r.group.failureMode = "stop" /\ AllEnabled(r)
        /\ Size(r) = 4 /\ FailedAt(r) = {2}

\* C9: a disabled member is recorded 'skipped' and never executed, the run is
\* marked failed only by an executor error, and in 'stop' mode an enabled
\* member with no executor error before it is executed.
C9_DisabledIsNotFailure ==
    \A r \in BagToSet(runs) :
        /\ \A k \in 1..Len(r.results) :
              ~r.sortedTasks[k].enabled =>
                  /\ r.results[k].status = "skipped"
                  /\ \A j \in 1..Len(r.invoked) : r.invoked[j] # TaskAt(r, k)
        /\ r.failed <=> (FailedAt(r) # {})
        /\ \A k \in 1..Len(r.results) :
              (r.sortedTasks[k].enabled /\ \A j \in FailedAt(r) : j >= k) =>
                  r.results[k].status \in {"success", "failed"}

\* Witness of C9: a 'stop' run that skipped a disabled first member and then
\* executed the enabled second one.
C9_Witness ==
    \E r \in BagToSet(runs) :
        /\ r.group.failureMode = "stop"
        /\ Len(r.results) >= 2
        /\ ~r.sortedTasks[1].enabled
        /\ r.sortedTasks[2].enabled
        /\ r.results[2].status = "success"
        /\ r.invoked = <<TaskAt(r, 2)>>

C10_State ==
    \A r \in BagToSet(runs) :
        /\ (r.group.failureMode = "stop" /\ FailedAt(r) # {}) =>
              /\ \A k \in (FirstFailure(r) + 1)..Len(r.results) :
                    r.results[k].status = "skipped"
              /\ Len(r.invoked) <= FirstFailure(r)
              /\ r.pc # "task"
        /\ r.group.failureMode = "continue" =>
              \A k \in 1..Len(r.results) :
                  r.sortedTasks[k].enabled => r.results[k].status \in {"success", "failed"}

C10_Step ==
    \A r \in BagToSet(runs) : \A q \in BagToSet(runs') : IsPrefix(r.results, q.results)

\* C10: in 'stop' mode no executor is called after the first executor error of
\* a run and every later member is skipped; recorded outcomes are never
\* changed; in 'continue' mode every enabled member is executed.
C10_StopAfterError == []C10_State /\ [][C10_Step]_vars

\* Witness of C10: a 'stop' run whose first member errored and whose enabled
\* third member was then skipped.
C10_Witness ==
    \E r \in BagToSet(runs) :
        /\ r.group.failureMode = "stop"
        /\ Len(r.results) >= 3
        /\ FailedAt(r) = {1}
        /\ r.sortedTasks[3].enabled
        /\ r.results[3].status = "skipped"

(***************************************************************************)
(* Properties of the registry and of concurrent runs                       *)
(***************************************************************************)
RunningRecords(g) ==
    {k \in 1..Len(executions) : executions[k].groupId = g /\ executions[k].status = "running"}

\* C5: executeGroup never runs concurrently with itself for one group id: a
\* request that arrives while a run of the group is in flight is rejected or
\* queued, so a group never has two execution records in state 'running' at once.
C5_NoConcurrentRuns ==
    \A g \in GroupIds : Cardinality(RunningRecords(g)) <= 1

\* Armed timers whose callback executes group g.
ArmedFor(g) == CopiesAmong(timers, {t \in BagToSet(timers) : t.gid = g})

\* C6: every group id has at most one armed timer, and the armed timers are
\* exactly the entries of the registry (a replaced or removed entry is stopped).
C6_OneTimerPerGroup ==
    \A g \in GroupIds :
        /\ ArmedFor(g) <= 1
        /\ ArmedFor(g) = IF scheduledGroups[g] = NoTimer THEN 0 ELSE 1
        /\ scheduledGroups[g] # NoTimer => CopiesIn(scheduledGroups[g], timers) = 1

\* Witness of C6: a group that holds an armed timer while a handler that will
\* register it again, with another expression, waits for its continuation.
C6_Witness ==
    \E g \in GroupIds : \E op \in BagToSet(ops) :
        /\ scheduledGroups[g] # NoTimer
        /\ ArmedFor(g) = 1
        /\ op.kind \in {"update", "create"}
        /\ op.gid = g
        /\ op.enabled
        /\ cronValidate(op.expr)
        /\ op.expr # scheduledGroups[g].expr

\* C7: a group whose stored enabled flag is false holds no armed timer.
C7_DisabledNeverArmed ==
    \A g \in GroupIds :
        (groups[g].state = "present" /\ ~groups[g].enabled) =>
            (scheduledGroups[g] = NoTimer /\ ArmedFor(g) = 0)

\* A timer firing has just called executeGroup for g.
FiredFor(g) ==
    \E r \in BagToSet(runs') :
        /\ r.gid = g
        /\ r.src = "timer"
        /\ r.pc = "load"
        /\ CopiesIn(r, runs') > CopiesIn(r, runs)

\* C8: once deleteGroup has completed for a group, no timer firing calls
\* executeGroup for it again.
C8_NoFiringAfterDelete ==
    [][\A g \in GroupIds : groups[g].state = "deleted" => ~FiredFor(g)]_vars

(***************************************************************************)
(* Order, delays and the record's life cycle (checked under SpecExec)      *)
(***************************************************************************)
\* The run has passed its sort (line 122).
Sorted(r) == r.pc \notin {"load", "create"}

\* The task ids whose outcome is 'success' or 'failed', in recorded order.
RECURSIVE ExecutedIds(_)
ExecutedIds(results) ==
    IF results = <<>> THEN <<>>
    ELSE LET rest == ExecutedIds(SubSeq(results, 1, Len(results) - 1))
             last == results[Len(results)]
         IN IF last.status \in {"success", "failed"} THEN Append(rest, last.taskId) ELSE rest

\* C11: the members of a run are processed in strictly ascending sort position,
\* whatever their storage order and gaps: the k-th recorded outcome is that of
\* the k-th member by position, the executor calls were made in that order, and
\* while an executor call is in flight every earlier member has its outcome
\* recorded and no later member has been touched.
C11_AscendingOrder ==
    \A r \in BagToSet(runs) :
        Sorted(r) =>
            /\ Size(r) = Len(members[r.gid])
            /\ {[taskId |-> r.sortedTasks[k].taskId, sortOrder |-> r.sortedTasks[k].sortOrder] :
                    k \in 1..Size(r)} = {members[r.gid][k] : k \in 1..Len(members[r.gid])}
            /\ \A j, k \in 1..Size(r) :
                  j < k => r.sortedTasks[j].sortOrder < r.sortedTasks[k].sortOrder
            /\ Len(r.results) <= Size(r)
            /\ \A k \in 1..Len(r.results) : r.results[k].taskId = TaskAt(r, k)
            /\ r.pc = "task" =>
                  /\ Len(r.results) = r.i - 1
                  /\ r.invoked = Append(ExecutedIds(r.results), TaskAt(r, r.i))
            /\ r.pc # "task" => r.invoked = ExecutedIds(r.results)
            /\ Finalized(r) => Record(r).taskResults = r.results

\* Witness of C11: a finalized run of three or more members stored in
\* descending position with gaps, two of which were executed.
C11_Witness ==
    \E r \in BagToSet(runs) :
        /\ Finalized(r)
        /\ Size(r) >= 3
        /\ members[r.gid][1].sortOrder > members[r.gid][2].sortOrder + 1
        /\ Len(r.invoked) >= 2

\* The member at position k of the run was handed to the executor.
Executed(r, k) == k <= Len(r.results) /\ r.results[k].status \in {"success", "failed"}

\* Positions before the last one whose member was executed.
ExecutedBeforeLast(r) == {k \in 1..(Size(r) - 1) : Executed(r, k)}

\* C12 as claimed: with a delay > 0 a finalized run of N members has taken
\* exactly N-1 delays, one after every member but the last; with delay = 0 none.
C12_DelayAfterEveryMember ==
    \A r \in BagToSet(runs) :
        /\ r.pc = "delay" => (r.group.delayBetweenTasks > 0 /\ r.i < Size(r))
        /\ Finalized(r) =>
              r.delays = IF r.group.delayBetweenTasks > 0 /\ Size(r) >= 1
                         THEN Size(r) - 1 ELSE 0

\* C12 amended: with a delay > 0 the run suspends after every member that was
\* executed and is not the last in the order, never after a skipped member and
\* never after the last one; a finalized run of N members that were all
\* executed has taken exactly N-1 delays; with delay = 0 it takes none.
C12_DelayAfterExecutedMember ==
    \A r \in BagToSet(runs) :
        /\ r.pc = "delay" =>
              /\ r.group.delayBetweenTasks > 0
              /\ r.i < Size(r)
              /\ Len(r.results) = r.i
              /\ Executed(r, r.i)
        /\ Finalized(r) =>
              /\ r.delays = IF r.group.delayBetweenTasks > 0
                            THEN Cardinality(ExecutedBeforeLast(r)) ELSE 0
              /\ (r.group.delayBetweenTasks > 0 /\ Size(r) >= 1
                    /\ \A k \in 1..Size(r) : Executed(r, k)) => r.delays = Size(r) - 1

\* Witness of C12: a finalized run with a delay > 0 over three or more members
\* that took two delays although a member before the last was skipped.
C12_Witness ==
    \E r \in BagToSet(runs) :
        /\ Finalized(r)
        /\ r.group.delayBetweenTasks > 0
        /\ Size(r) >= 4
        /\ r.delays = 2
        /\ \E k \in 1..(Size(r) - 1) : ~Executed(r, k)

\* C13: a delay is taken only between two consecutive executed members: the
\* member before it was executed, it is not the last, and the member after it
\* is executed too (neither disabled nor skipped after a failure in 'stop' mode).
C13_DelayOnlyBetweenExecuted ==
    \A r \in BagToSet(runs) :
        r.pc = "delay" =>
            /\ Executed(r, r.i)
            /\ r.i < Size(r)
            /\ LoopBranch(r.sortedTasks[r.i + 1].enabled, r.failed,
                          r.group.failureMode) = "execute"

\* C14: executeGroup on a group id that is not in the store ends with the
\* not-found error right after its read: it creates no execution record, calls
\* no executor, records no outcome and leaves every group's last-run fields alone.
C14_NotFoundFailsFast ==
    \A r \in BagToSet(runs) :
        groups[r.gid].state # "present" =>
            /\ r.pc \in {"load", "done"}
            /\ r.pc = "done" => r.error = "not found"
            /\ r.execution = 0
            /\ r.invoked = <<>>
            /\ r.results = <<>>
            /\ executions = <<>>
            /\ \A g \in GroupIds : groups[g].lastStatus = Null /\ groups[g].lastError = 0

\* Witness of C14: executeGroup of an id that is not in the store has thrown.
C14_Witness ==
    \E r \in BagToSet(runs) :
        groups[r.gid].state = "none" /\ r.pc = "done" /\ r.error = "not found"

(***************************************************************************)
(* The execution record of a run (checked under SpecRuns)                  *)
(***************************************************************************)
C15_State ==
    \A r \in BagToSet(runs) :
        /\ r.pc \in {"load", "create"} => (r.execution = 0 /\ r.invoked = <<>>)
        /\ r.execution > 0 =>
              /\ CopiesIn(r, runs) = 1
              /\ \A q \in BagToSet(runs) : q.execution = r.execution => q = r
              /\ r.execution <= Len(executions)
              /\ Record(r).groupId = r.gid
              /\ Record(r).tasksTotal = Len(r.group.taskMemberships)
              /\ Record(r).tasksTotal = Len(members[r.gid])
              /\ r.pc \in {"loop", "task", "delay"} =>
                    (Record(r).status = "running" /\ ~Record(r).completed)
              /\ Finalized(r) =>
                    (Record(r).status \in {"success", "failed", "partial"} /\ Record(r).completed)

C15_Step ==
    /\ Len(executions') \in {Len(executions), Len(executions) + 1}
    /\ Len(executions') > Len(executions) =>
          LET e == executions'[Len(executions')]
          IN e.status = "running" /\ ~e.completed /\ e.taskResults = <<>>
    /\ \A k \in 1..Len(executions) :
          LET old == executions[k]
              new == executions'[k]
          IN /\ old.completed => new = old
             /\ new # old =>
                   /\ old.status = "running"
                   /\ new.status # "running"
                   /\ new.completed
                   /\ new.groupId = old.groupId
                   /\ new.tasksTotal = old.tasksTotal
                   /\ new.tasksCompleted + new.tasksFailed + new.tasksSkipped = new.tasksTotal

\* C15: every run of an existing group creates one execution record of its
\* own, 'running' with tasksTotal = the member count, before it calls any
\* executor; the record leaves 'running' in one write that sets the counts, and
\* a finalized record is never written again, also with runs in parallel.
C15_RecordLifecycle == []C15_State /\ [][C15_Step]_vars

\* Witness of C15: two runs of the same group have each finalized their record.
C15_Witness ==
    /\ Len(executions) = 2
    /\ executions[1].completed
    /\ executions[2].completed
    /\ executions[1].groupId = executions[2].groupId

\* C16: the execution record a run has created 'running' is eventually
\* finalized with one outcome per member, whatever the executors do; a rejected
\* executor call becomes that member's 'failed' outcome and is never the error
\* executeGroup ends with. (SpecExecLive runs executeGroup once: the record is
\* the first of the table.)
C16_AlwaysFinalizes ==
    /\ (Len(executions) >= 1 /\ executions[1].status = "running")
          ~> (/\ Len(executions) >= 1
              /\ executions[1].completed
              /\ executions[1].status # "running"
              /\ Len(executions[1].taskResults) = executions[1].tasksTotal)
    /\ [](\A r \in BagToSet(runs) :
            /\ r.execution > 0 => r.error \in {Null, "update failed"}
            /\ r.pc \in {"loop", "task", "delay"} => r.error = Null)

\* Witness of C16: a finalized record whose first member failed and that holds
\* the outcomes of three or more members.
C16_Witness ==
    \E k \in 1..Len(executions) :
        /\ executions[k].completed
        /\ Len(executions[k].taskResults) >= 3
        /\ executions[k].taskResults[1].status = "failed"

(***************************************************************************)
(* Validation and registration (checked under Spec and SpecLoad)           *)
(***************************************************************************)
\* C17: scheduleGroup called with an expression that fails validation ends with
\* an error for its caller and leaves the registry as it was.
C17_InvalidIsRejected ==
    \A g \in GroupIds, expr \in Exprs :
        ~cronValidate(expr) =>
            /\ scheduleGroupThrows(expr)
            /\ scheduleGroup(Registry, g, expr) = Registry

\* C18: createGroup and updateGroup reject a malformed schedule expression
\* before they write anything: no step stores a malformed expression in a
\* group row.
C18_NoMalformedWrite ==
    [][\A g \in GroupIds :
          (groups'[g].state = "present"
              /\ groups'[g].cronExpression # groups[g].cronExpression) =>
                  cronValidate(groups'[g].cronExpression)]_vars

\* Armed timers of the bag whose callback executes group g.
ArmedIn(bag, g) == CopiesAmong(bag, {t \in BagToSet(bag) : t.gid = g})

\* The step starts loadTaskGroups and op holds what its read returned.
LoadReads(op) == op.kind = "load" /\ ops' = ops (+) SetToBag({op})

\* The step is the rest of the loadTaskGroups call that read op.
LoadSchedules(op) == op.kind = "load" /\ ops' = ops (-) SetToBag({op})

\* C19: loadTaskGroups reads the enabled groups of the store and no disabled
\* one, then arms one timer, with the group's expression, for each of them whose
\* expression is valid; a group whose expression is invalid is skipped and the
\* others are registered all the same; no other group's timer is touched.
C19_LoadRegistersEnabled ==
    [][/\ \A op \in BagToSet(ops') :
            LoadReads(op) =>
                op.rows = {[gid |-> g, expr |-> groups[g].cronExpression] :
                              g \in {x \in GroupIds : groups[x].state = "present"
                                                        /\ groups[x].enabled}}
       /\ \A op \in BagToSet(ops) :
            LoadSchedules(op) =>
                \A g \in GroupIds :
                    IF \E row \in op.rows : row.gid = g /\ cronValidate(row.expr)
                    THEN /\ \E row \in op.rows :
                               scheduledGroups'[g] = [gid |-> g, expr |-> row.expr]
                         /\ CopiesIn(scheduledGroups'[g], timers') = 1
                         /\ ArmedIn(timers', g) = 1
                    ELSE /\ scheduledGroups'[g] = scheduledGroups[g]
                         /\ ArmedIn(timers', g) = ArmedIn(timers, g)]_vars

\* Witness of C19: a load has completed over a store that holds an enabled
\* group with an invalid expression and an enabled group with a valid one; the
\* second is registered and the first is not.
C19_Witness ==
    /\ ops = EmptyBag
    /\ \E g, h \in GroupIds :
          /\ groups[g].state = "present" /\ groups[g].enabled
          /\ ~cronValidate(groups[g].cronExpression)
          /\ scheduledGroups[g] = NoTimer
          /\ groups[h].state = "present" /\ groups[h].enabled
          /\ scheduledGroups[h] = [gid |-> h, expr |-> groups[h].cronExpression]
          /\ ArmedFor(h) = 1

\* The step is the rest of the createGroup or updateGroup call that wrote op.
Completes(op) == op.kind \in {"create", "update"} /\ ops' = ops (-) SetToBag({op})

\* C20: when createGroup, updateGroup or toggleGroup completes for a group that
\* is stored enabled, the registry holds exactly one armed timer for the group
\* and it uses the stored expression; when the group is stored disabled the
\* registry holds no timer for it, and nothing changes if it held none before.
C20_RegistryFollowsStore ==
    [][\A op \in BagToSet(ops) :
          Completes(op) =>
              LET g == op.gid
              IN /\ (groups'[g].state = "present" /\ groups'[g].enabled) =>
                       /\ scheduledGroups'[g] = [gid |-> g, expr |-> groups'[g].cronExpression]
                       /\ CopiesIn(scheduledGroups'[g], timers') = 1
                       /\ ArmedIn(timers', g) = 1
                 /\ (groups'[g].state = "present" /\ ~groups'[g].enabled) =>
                       /\ scheduledGroups'[g] = NoTimer
                       /\ ArmedIn(timers', g) = 0
                       /\ scheduledGroups[g] = NoTimer =>
                             (scheduledGroups' = scheduledGroups /\ timers' = timers)]_vars

(***************************************************************************)
(* The finalized record and the group's last-run fields (SpecExec)         *)
(***************************************************************************)
\* C27: when executeGroup has returned an execution, the group's lastStatus is
\* the record's final status and its lastError is the record's error summary,
\* which is set exactly when at least one member failed.
C27_LastRunMirrorsRecord ==
    \A r \in BagToSet(runs) :
        (r.pc = "done" /\ r.execution > 0 /\ r.error = Null) =>
            /\ Record(r).completed
            /\ groups[r.gid].lastStatus = Record(r).status
            /\ groups[r.gid].lastError = Record(r).errorMessage
            /\ (Record(r).errorMessage # 0) <=> (Record(r).tasksFailed > 0)
            /\ (groups[r.gid].lastError # 0) <=> (Record(r).tasksFailed > 0)

\* Witness of C27: executeGroup has returned from a run in which two members
\* failed, and the group carries the summary of that run.
C27_Witness ==
    \E r \in BagToSet(runs) :
        /\ r.pc = "done" /\ r.execution > 0 /\ r.error = Null
        /\ Record(r).tasksFailed = 2
        /\ groups[r.gid].lastError = 2

\* C28: within one run the executor is called at most once per member; a
\* member whose call was rejected is not called again, in either failure mode.
C28_AtMostOnePerMember ==
    \A r \in BagToSet(runs) :
        /\ \A j, k \in 1..Len(r.invoked) : j # k => r.invoked[j] # r.invoked[k]
        /\ Len(r.invoked) <= Size(r)
        /\ \A k \in FailedAt(r) :
              Cardinality({j \in 1..Len(r.invoked) : r.invoked[j] = TaskAt(r, k)}) = 1

\* Witness of C28: a finalized 'continue' run whose first member was rejected
\* and that went on to call two more members.
C28_Witness ==
    \E r \in BagToSet(runs) :
        /\ Finalized(r)
        /\ r.group.failureMode = "continue"
        /\ 1 \in FailedAt(r)
        /\ Len(r.invoked) >= 3

\* C29: in every finalized record the three counts add up to tasksTotal, which
\* is the length of the outcome list and the number of members the run loaded:
\* every member has exactly one outcome.
C29_CountsAddUp ==
    \A k \in 1..Len(executions) :
        LET e == executions[k]
        IN e.completed =>
              /\ e.tasksCompleted + e.tasksFailed + e.tasksSkipped = e.tasksTotal
              /\ e.tasksTotal = Len(e.taskResults)
              /\ e.tasksTotal = Len(members[e.groupId])
              /\ \A j \in 1..Len(e.taskResults) :
                    e.taskResults[j].status \in {"success", "failed", "skipped"}
              /\ {e.taskResults[j].taskId : j \in 1..Len(e.taskResults)}
                    = {members[e.groupId][j].taskId : j \in 1..Len(members[e.groupId])}

\* Witness of C29: a finalized record that holds a success, a failure and a skip.
C29_Witness ==
    \E k \in 1..Len(executions) :
        /\ executions[k].completed
        /\ executions[k].tasksCompleted >= 1
        /\ executions[k].tasksFailed >= 1
        /\ executions[k].tasksSkipped >= 1

(***************************************************************************)
(* Shutdown (checked under SpecFireLive)                                   *)
(***************************************************************************)
\* C21: cleanup leaves no timer armed and the registry empty; only a timer that
\* is in the registry fires, so none fires once cleanup has emptied it; and a
\* run that a timer started is not cancelled by cleanup or by an unregistration:
\* its 'running' record is still finalized.
C21_CleanupStopsTimers ==
    /\ [][Cleanup => (/\ timers' = EmptyBag
                      /\ \A g \in GroupIds : scheduledGroups'[g] = NoTimer
                      /\ runs' = runs
                      /\ executions' = executions)]_vars
    /\ [][\A g \in GroupIds :
            FiredFor(g) => (scheduledGroups[g] # NoTimer
                              /\ CopiesIn(scheduledGroups[g], timers) = 1)]_vars
    /\ (Len(executions) >= 1 /\ executions[1].status = "running")
          ~> (/\ Len(executions) >= 1
              /\ executions[1].completed
              /\ executions[1].status # "running")

\* Witness of C21: a run started by a timer has its record still 'running'
\* while the registry is empty and no timer is armed.
C21_Witness ==
    \E r \in BagToSet(runs) :
        /\ r.src = "timer"
        /\ r.execution > 0
        /\ Record(r).status = "running"
        /\ timers = EmptyBag
        /\ \A g \in GroupIds : scheduledGroups[g] = NoTimer
        /\ ops = EmptyBag

(***************************************************************************)
(* Properties of the membership calls (checked under SpecMembers)          *)
(***************************************************************************)
DistinctPositions(g) ==
    \A j, k \in 1..Len(members[g]) :
        j # k => members[g][j].sortOrder # members[g][k].sortOrder

\* C23: in every reachable store state, whatever createGroup with taskIds,
\* addTask with or without a sortOrder, removeTask and reorderTasks calls
\* were made and however they interleaved, no two members of a group have the
\* same sort position.
C23_DistinctPositions == \A g \in GroupIds : DistinctPositions(g)

(***************************************************************************)
(* Properties of the membership calls and the runs that follow them        *)
(* (checked under SpecReload)                                              *)
(***************************************************************************)
\* The membership handlers suspended at an await.
PendingMembership == {op \in BagToSet(ops) : op.kind \in {"addTask", "reorder"}}

\* The member rows of a group as the store would hand them out now.
StoredMembership(g) ==
    LET ordered == SortBySortOrder(members[g])
    IN [k \in 1..Len(ordered) |-> ordered[k].taskId]

\* The members a run holds, in its order.
LoadedMembership(r) ==
    [k \in 1..Len(r.group.taskMemberships) |-> r.group.taskMemberships[k].taskId]

TasksOf(results) == [k \in 1..Len(results) |-> results[k].taskId]

\* C22: a step of addTask, removeTask or reorderTasks changes nothing but
\* member rows (the group rows, the task rows, the execution records and
\* the timer registry stay as they are); and the memberships a run works on
\* are those the store holds when its first read answers, whatever an earlier
\* run of the group worked on.
C22_MembershipReadAtStart ==
    /\ [][(members' # members \/ PendingMembership' # PendingMembership)
            => /\ groups' = groups
               /\ taskEnabled' = taskEnabled
               /\ executions' = executions
               /\ scheduledGroups' = scheduledGroups
               /\ timers' = timers]_vars
    /\ [][\A r \in BagToSet(runs') :
            (r.pc = "create" /\ r \notin BagToSet(runs))
                => LoadedMembership(r) = StoredMembership(r.gid)]_vars

\* A second run of g1 has finalized over members other than those of the
\* first run, and the timer of g1 is still armed.
C22_Witness ==
    /\ Len(executions) = 2
    /\ executions[1].completed
    /\ executions[2].completed
    /\ executions[1].groupId = "g1"
    /\ executions[2].groupId = "g1"
    /\ TasksOf(executions[1].taskResults) # TasksOf(executions[2].taskResults)
    /\ scheduledGroups["g1"] # NoTimer
    /\ CopiesIn(scheduledGroups["g1"], timers) = 1

(***************************************************************************)
(* Properties of a firing after the store changed (checked under           *)
(* SpecStored)                                                             *)
(***************************************************************************)
\* The activations this step starts, and those whose first read it answers.
Started == {r \in BagToSet(runs') : r.pc = "load" /\ CopiesIn(r, runs') > CopiesIn(r, runs)}
Answered == {r \in BagToSet(runs') : r.pc = "create" /\ CopiesIn(r, runs') > CopiesIn(r, runs)}

\* C31: the callback of a timer hands executeGroup the group id and nothing
\* else, and the first read of that activation gives it the memberships, the
\* failure mode and the delay the store holds then, whatever they were when
\* the timer was registered; a write to the store (a changed expression
\* included) leaves the registry and the armed timers as they are, so the
\* timer keeps the expression it was registered with until scheduleGroup is
\* called again.
C31_FiresOnStoredGroup ==
    /\ [][\A r \in Started :
            /\ r = NewRun(r.gid, "timer")
            /\ \E t \in BagToSet(timers) : t.gid = r.gid]_vars
    /\ [][\A r \in Answered : r.group = getGroupWithTasks(r.gid)]_vars
    /\ [][(groups' # groups \/ members' # members)
            => (scheduledGroups' = scheduledGroups /\ timers' = timers)]_vars

\* The timer of g1 is still the one registered with the nightly expression
\* while the row holds another one, and an activation it started works on a
\* failure mode, a delay and members the row did not have at registration.
C31_Witness ==
    /\ scheduledGroups["g1"] # NoTimer
    /\ CopiesIn(scheduledGroups["g1"], timers) = 1
    /\ scheduledGroups["g1"].expr = ExprNightly
    /\ groups["g1"].cronExpression = ExprFive
    /\ \E r \in BagToSet(runs) :
          /\ r.src = "timer"
          /\ r.pc \notin {"load", "create"}
          /\ r.group.found
          /\ r.group.failureMode = "continue"
          /\ r.group.delayBetweenTasks = 0
          /\ LoadedMembership(r) \notin {<<>>, <<1, 2>>}

(***************************************************************************)
(* Properties of a run whose store changes (checked under SpecSnapshot)    *)
(***************************************************************************)
\* The run has read the group and sorted its memberships.
Looping(r) == r.pc \in {"loop", "task", "delay", "updateGroup"} \/ (r.pc = "done" /\ r.execution > 0)

FailedBefore(r, k) == \E j \in 1..(k - 1) : r.results[j].status = "failed"

\* What the k-th member of the order the run holds must be recorded as, from
\* the enabled flag and the failure mode the run read at its start.
SnapshotBranch(r, k) ==
    IF ~r.sortedTasks[k].enabled THEN "disabled"
    ELSE IF FailedBefore(r, k) /\ r.group.failureMode = "stop" THEN "previous failure"
    ELSE "execute"

OutcomeBranch(result) ==
    IF result.status # "skipped" THEN "execute"
    ELSE IF result.error = "Task is disabled" THEN "disabled"
    ELSE "previous failure"

\* The delays the run has started, from the delay it read at its start.
SnapshotDelays(r) ==
    IF r.group.delayBetweenTasks > 0
    THEN Cardinality({k \in 1..Len(r.results) :
             r.results[k].status # "skipped" /\ k < Len(r.sortedTasks)})
    ELSE 0

C30_State ==
    \A r \in BagToSet(runs) :
        Looping(r) =>
            /\ r.sortedTasks = SortBySortOrder(r.group.taskMemberships)
            /\ Len(r.results) <= Len(r.sortedTasks)
            /\ \A k \in 1..Len(r.results) :
                  /\ r.results[k].taskId = r.sortedTasks[k].taskId
                  /\ OutcomeBranch(r.results[k]) = SnapshotBranch(r, k)
            /\ r.delays = SnapshotDelays(r)
            /\ Finalized(r) =>
                  /\ Len(r.results) = Len(r.sortedTasks)
                  /\ Record(r).tasksTotal = Len(r.group.taskMemberships)
                  /\ Record(r).taskResults = r.results

C30_Step ==
    \A r \in BagToSet(runs), next \in BagToSet(runs') :
        /\ r.pc # "load" => next.group = r.group
        /\ Looping(r) => next.sortedTasks = r.sortedTasks

\* C30: once a run has read its group, the group it holds (members, their
\* order, their enabled flags, failure mode and delay) never changes, whatever
\* is written to the store meanwhile; and the members it processes, their
\* order, the branch taken for each and the delays it takes are those that
\* follow from what it holds, not from the store.
C30_RunsOnSnapshot == []C30_State /\ [][C30_Step]_vars

\* A run that read two members, failure mode 'stop' and a delay has finalized:
\* the first member failed, the delay was taken, the second was skipped for
\* that failure; by then the store has the first task disabled, failure mode
\* 'continue', no delay, and other members or another order.
C30_Witness ==
    \E r \in BagToSet(runs) :
        /\ Finalized(r)
        /\ Len(r.sortedTasks) = 2
        /\ r.group.failureMode = "stop"
        /\ r.group.delayBetweenTasks > 0
        /\ r.results[1].status = "failed"
        /\ r.results[2].status = "skipped"
        /\ r.delays = 1
        /\ ~taskEnabled[r.sortedTasks[1].taskId]
        /\ groups[r.gid].failureMode = "continue"
        /\ groups[r.gid].delayBetweenTasks = 0
        /\ StoredMembership(r.gid) # LoadedMembership(r)

(***************************************************************************)
(* Properties of a run whose record update fails (checked under            *)
(* SpecPersist)                                                            *)
(***************************************************************************)
FinalizeFailed(r) == r.error = "finalize failed"

\* C24: when the store rejects the update that finalizes the record,
\* executeGroup ends at once with that error instead of returning a record;
\* the record is left in status 'running' without counts or results, and the
\* last-run fields of the group are not written for that run.
C24_FinalizeErrorPropagates ==
    /\ [](\A r \in BagToSet(runs) :
             FinalizeFailed(r) =>
                 /\ r.pc = "done"
                 /\ Record(r).status = "running"
                 /\ ~Record(r).completed
                 /\ Record(r).taskResults = <<>>
                 /\ groups[r.gid].lastStatus = Null
                 /\ groups[r.gid].lastError = 0)
    /\ [][\A r \in BagToSet(runs') :
             (FinalizeFailed(r) /\ r \notin BagToSet(runs))
                 => (executions' = executions /\ groups' = groups)]_vars

\* A run that executed two members has ended with the error of the record
\* update.
C24_Witness ==
    \E r \in BagToSet(runs) :
        /\ FinalizeFailed(r)
        /\ Len(r.results) = 2
        /\ Len(r.invoked) = 2
        /\ Record(r).status = "running"

(***************************************************************************)
(* Properties of the runs of two groups (checked under SpecGroups)         *)
(***************************************************************************)
\* The run is suspended in an executor call or in an inter-task delay.
Suspended(r) == r.pc \in {"task", "delay"}

\* The next step of one activation, whichever it is.
StepOf(r) ==
    \/ ExecLoad(r)
    \/ ExecCreate(r)
    \/ ExecLoopStep(r)
    \/ ExecTaskDone(r, TRUE)
    \/ ExecTaskDone(r, FALSE)
    \/ ExecDelayDone(r)
    \/ ExecFinalize(r)
    \/ ExecUpdateGroup(r)
    \/ ExecReturn(r)

\* The bounds of SpecGroups leave room for one more run.
RoomForRun == BagCardinality(runs) < 2 /\ Len(executions) + UnstartedCount(runs) < 2

\* C25: while a run of one group is suspended in an executor call or in a
\* delay, every armed timer of another group can fire and start a run, every
\* run of another group can take its next step, whatever that step is (so it
\* can go on to its end), and a toggle of another group and the continuation
\* of a suspended update can proceed.
C25_NoBlocking ==
    \A r \in BagToSet(runs) :
        Suspended(r) =>
            /\ \A t \in BagToSet(timers) :
                  (t.gid # r.gid /\ RoomForRun) => ENABLED FireTimer(t, 2, 2)
            /\ \A other \in BagToSet(runs) :
                  other.gid # r.gid => ENABLED StepOf(other)
            /\ \A g \in GroupIds \ {r.gid} :
                  (groups[g].state = "present" /\ BagCardinality(ops) < MaxOps)
                      => ENABLED UpdateGroupWrite(g, "enabled", FALSE)
            /\ (\E op \in BagToSet(ops) : op.kind = "update") => ENABLED UpdateGroupCont

\* The run of g1 sleeps between its two tasks while a run of g2, whose record
\* was created after that of g1, has finished.
C25_Witness ==
    \E r \in BagToSet(runs) :
        /\ r.gid = "g1"
        /\ r.pc = "delay"
        /\ r.src = "timer"
        /\ \E k \in 1..Len(executions) :
              /\ k > r.execution
              /\ executions[k].groupId = "g2"
              /\ executions[k].completed
        /\ groups["g2"].lastStatus # Null
        /\ \A other \in BagToSet(runs) : other.gid = "g1"

(***************************************************************************)
(* The validators (checked under Spec)                                     *)
(***************************************************************************)
\* The rule: the expression has exactly five whitespace-separated fields.
FiveFields(expr) == Len(expr) = 5

\* C26: the validators answer true for an expression of five fields and false
\* for any other number of fields, and what the backend lets through follows
\* the same rule: every expression it has persisted in a group row, handed to
\* a suspended create or update, or armed a timer with, has five fields.
C26_ValidatorsAgree ==
    /\ \A expr \in Exprs : isValidCron(expr) <=> FiveFields(expr)
    /\ \A expr \in Exprs : cronValidate(expr) <=> FiveFields(expr)
    /\ \A g \in GroupIds :
          groups[g].state = "present" => isValidCron(groups[g].cronExpression)
    /\ \A op \in BagToSet(ops) :
          op.kind \in {"create", "update"} => isValidCron(op.expr)
    /\ \A t \in BagToSet(timers) : isValidCron(t.expr)

(***************************************************************************)
(* Further properties of one run (checked under SpecExec)                  *)
(***************************************************************************)
\* The run has read an existing group that has no member.
Memberless(r) == r.pc # "load" /\ r.group.found /\ r.group.taskMemberships = <<>>

\* C34: a run of an existing group without members calls no executor and
\* takes no delay, its record has tasksTotal 0 from the start, and once
\* finalized it has all four counts at 0, status 'success' and no error
\* summary.
C34_EmptyGroupSucceeds ==
    \A r \in BagToSet(runs) :
        Memberless(r) =>
            /\ r.pc \notin {"task", "delay"}
            /\ r.invoked = <<>>
            /\ r.delays = 0
            /\ r.results = <<>>
            /\ r.execution > 0 => Record(r).tasksTotal = 0
            /\ Finalized(r) =>
                  /\ Record(r).completed
                  /\ Record(r).tasksTotal = 0
                  /\ Record(r).tasksCompleted = 0
                  /\ Record(r).tasksFailed = 0
                  /\ Record(r).tasksSkipped = 0
                  /\ Record(r).status = "success"
                  /\ Record(r).errorMessage = 0

\* The run of a group without members, with a delay configured, has ended
\* without error.
C34_Witness ==
    \E r \in BagToSet(runs) :
        /\ Memberless(r)
        /\ r.group.delayBetweenTasks > 0
        /\ r.pc = "done"
        /\ r.error = Null
        /\ Record(r).status = "success"

SkippedForFailure(result) ==
    result.status = "skipped" /\ result.error = "Skipped due to previous task failure"

\* C32: a finalized run in failure mode 'stop' has at most one 'failed'
\* member, and every enabled member after it is 'skipped'; in any run, a
\* member skipped for a previous failure has a 'failed' member before it.
C32_OneFailureInStopMode ==
    \A r \in BagToSet(runs) :
        /\ (Finalized(r) /\ r.group.failureMode = "stop") =>
              /\ Cardinality(FailedAt(r)) <= 1
              /\ \A k \in FailedAt(r) :
                    \A j \in (k + 1)..Size(r) :
                        r.sortedTasks[j].enabled => SkippedForFailure(r.results[j])
        /\ \A k \in 1..Len(r.results) :
              SkippedForFailure(r.results[k]) =>
                  \E j \in 1..(k - 1) : r.results[j].status = "failed"

\* A finalized 'stop' run whose first member failed, whose second is disabled
\* and whose third and fourth are enabled.
C32_Witness ==
    \E r \in BagToSet(runs) :
        /\ Finalized(r)
        /\ r.group.failureMode = "stop"
        /\ Size(r) = 4
        /\ FailedAt(r) = {1}
        /\ ~r.sortedTasks[2].enabled
        /\ r.sortedTasks[3].enabled
        /\ r.sortedTasks[4].enabled
        /\ SkippedForFailure(r.results[4])

(***************************************************************************)
(* Further properties of the registry (checked under Spec)                 *)
(***************************************************************************)
\* The group has a timer in the map and that timer is armed.
LiveTimer(g) == scheduledGroups[g] # NoTimer /\ CopiesIn(scheduledGroups[g], timers) = 1

\* An updateGroup suspended after its write, about to call scheduleGroup with
\* an expression that fails validation.
RegistersInvalid(op) == op.kind = "update" /\ op.enabled /\ ~cronValidate(op.expr)

\* C33: scheduleGroup called with an invalid expression for a group that has
\* a live timer returns the registry it was given: the entry of the group is
\* the same timer with its old expression, still armed once, and no other
\* timer is touched; so the step of updateGroup that makes this call leaves
\* the registry as it was.
C33_InvalidKeepsOldTimer ==
    /\ [](\A g \in GroupIds, expr \in Exprs :
             (LiveTimer(g) /\ ~cronValidate(expr)) =>
                 LET reg == scheduleGroup(Registry, g, expr)
                 IN /\ reg.map = scheduledGroups
                    /\ reg.armed = timers
                    /\ reg.map[g].expr # expr
                    /\ CopiesIn(reg.map[g], reg.armed) = 1)
    /\ [][\A op \in BagToSet(ops) :
             (RegistersInvalid(op) /\ LiveTimer(op.gid) /\ ops' = ops (-) SetToBag({op}))
                 => (scheduledGroups' = scheduledGroups /\ timers' = timers)]_vars

\* updateGroup has written the empty expression to the enabled group g1, whose
\* timer is live, and is about to call scheduleGroup with it.
C33_Witness ==
    /\ LiveTimer("g1")
    /\ groups["g1"].state = "present"
    /\ groups["g1"].cronExpression = ExprEmpty
    /\ \E op \in BagToSet(ops) : RegistersInvalid(op) /\ op.gid = "g1"


====
